---- MODULE Spec2Model ----
(***************************************************************************)
(* Cross-reference engine of reglementalert: the matcher, the in-run/      *)
(* cross-run deduplication and the two orchestrators (the on-demand POST   *)
(* handler and the scheduled GET handler), over a shared alert store.      *)
(*                                                                         *)
(* Strings are sequences of one-character strings, so that toLowerCase,    *)
(* trim, includes and the `a::b::c` key concatenation are computed, not    *)
(* assumed.                                                                *)
(***************************************************************************)
EXTENDS Integers, Sequences, FiniteSets, Bags, TLC

VARIABLES
    env,                    \* process.env of the deployment
    monitored_ingredients,  \* the ingredient table, in row order
    probe,              \* matcher harness: one ingredient/entry pair and both copies' verdicts
    regulatory_alerts,  \* the alert table: a bag of rows (a bag, so that duplicates are expressible)
    run,                \* run id -> the local state of one handler invocation
    mail,               \* the Notifier's invocations so far
    faults              \* injected store/notifier failures so far

vars == <<env, monitored_ingredients, probe, regulatory_alerts, run, mail, faults>>

----------------------------------------------------------------------------
(* Bounds *)

\* longest generated name handed to the matcher harness
MaxNameLen == 4
\* handler invocations (on-demand and scheduled together) in one behaviour
MaxRuns == 2
\* injected failures (store read, store write, thrown exception, notifier) in one behaviour
MaxFaults == 2
\* longest provider list handed to the normalizer harness
MaxListLen == 2

----------------------------------------------------------------------------
(* JavaScript string primitives *)

\* null / undefined
NULL == <<"<null>">>

Upper == <<"A","B","C","D","E","F","G","H","I","J","K","L","M",
           "N","O","P","Q","R","S","T","U","V","W","X","Y","Z">>
Lower == <<"a","b","c","d","e","f","g","h","i","j","k","l","m",
           "n","o","p","q","r","s","t","u","v","w","x","y","z">>

Whitespace == {" ", "\t", "\n"}

toLowerCaseChar(c) ==
    IF \E k \in 1..26 : Upper[k] = c
    THEN Lower[CHOOSE k \in 1..26 : Upper[k] = c]
    ELSE c

\* String.prototype.toLowerCase
toLowerCase(s) == [k \in 1..Len(s) |-> toLowerCaseChar(s[k])]

SetMin(S) == CHOOSE x \in S : \A y \in S : x <= y
SetMax(S) == CHOOSE x \in S : \A y \in S : x >= y

\* String.prototype.trim: strips leading and trailing whitespace only
trim(s) ==
    LET keep == {k \in 1..Len(s) : s[k] \notin Whitespace}
    IN  IF keep = {} THEN <<>> ELSE SubSeq(s, SetMin(keep), SetMax(keep))

\* String.prototype.startsWith in its place
includes_StartsWith(s, t) == Len(t) <= Len(s) /\ SubSeq(s, 1, Len(t)) = t

\* String.prototype.includes: t occurs in s as a contiguous substring
includes(s, t) ==
    \E k \in 0..(Len(s) - Len(t)) : SubSeq(s, k + 1, k + Len(t)) = t

\* JavaScript truthiness of a `string | null` value: null and '' are falsy
Truthy(s) == s # NULL /\ s # <<>>

----------------------------------------------------------------------------
(* Matching helpers: the on-demand handler's copy *)

\* a name shorter than this is compared by equality only
MinSubstringLen == 4

\* a normalisation that forgets the padding
normaliseCas_NoTrim(cas) == toLowerCase(cas)

normaliseCas(cas) == toLowerCase(trim(cas))

\* a plausible slip: the length floor applied to one side only
namesOverlap_OneSidedFloor(a, b) ==
    LET la == trim(toLowerCase(a))
        lb == trim(toLowerCase(b))
    IN  IF Len(la) < MinSubstringLen THEN la = lb
        ELSE includes(la, lb) \/ includes(lb, la)

\* a plausible slip: only the first name is looked for inside the second
namesOverlap_OneWay(a, b) ==
    LET la == trim(toLowerCase(a))
        lb == trim(toLowerCase(b))
    IN  IF Len(la) < MinSubstringLen \/ Len(lb) < MinSubstringLen THEN la = lb
        ELSE includes(lb, la)

namesOverlap(a, b) ==
    LET la == trim(toLowerCase(a))
        lb == trim(toLowerCase(b))
    IN  IF Len(la) < MinSubstringLen \/ Len(lb) < MinSubstringLen THEN la = lb
        ELSE includes(la, lb) \/ includes(lb, la)

casBothPresent(ingredient, entry) ==
    Truthy(ingredient.cas_number) /\ Truthy(entry.casNumber)

\* a plausible slip: the CAS numbers compared as stored, not normalised
casMatch_Raw(ingredient, entry) ==
    /\ casBothPresent(ingredient, entry)
    /\ ingredient.cas_number = entry.casNumber

casMatch(ingredient, entry) ==
    /\ casBothPresent(ingredient, entry)
    /\ normaliseCas(ingredient.cas_number) = normaliseCas(entry.casNumber)

nameMatch(ingredient, entry) ==
    /\ ~casMatch(ingredient, entry)
    /\ namesOverlap(ingredient.ingredient_name, entry.name)

\* `if (!casMatch && !nameMatch) continue`, and matchType for what is kept
MatchKind(ingredient, entry) ==
    IF casMatch(ingredient, entry) THEN "CasMatch"
    ELSE IF nameMatch(ingredient, entry) THEN "NameMatch"
    ELSE "NoMatch"

(* Matching helpers: the scheduled handler's copy *)

cronNormaliseCas(cas) == toLowerCase(trim(cas))

cronNamesOverlap(a, b) ==
    LET la == trim(toLowerCase(a))
        lb == trim(toLowerCase(b))
    IN  IF Len(la) < MinSubstringLen \/ Len(lb) < MinSubstringLen THEN la = lb
        ELSE includes(la, lb) \/ includes(lb, la)

cronCasMatch(ingredient, entry) ==
    /\ Truthy(ingredient.cas_number) /\ Truthy(entry.casNumber)
    /\ cronNormaliseCas(ingredient.cas_number) = cronNormaliseCas(entry.casNumber)

cronNameMatch(ingredient, entry) ==
    /\ ~cronCasMatch(ingredient, entry)
    /\ cronNamesOverlap(ingredient.ingredient_name, entry.name)

cronMatchKind(ingredient, entry) ==
    IF cronCasMatch(ingredient, entry) THEN "CasMatch"
    ELSE IF cronNameMatch(ingredient, entry) THEN "NameMatch"
    ELSE "NoMatch"

----------------------------------------------------------------------------
(* Names and CAS numbers used as data *)

Lead == <<"L","e","a","d">>
LEAD == <<"L","E","A","D">>
ABC == <<"A","B","C">>
ABCDEF == <<"A","B","C","D","E","F">>
Dioxide == <<"D","i","o","x","i","d","e">>
TitaniumDioxide == <<"T","i","t","a","n","i","u","m"," ","d","i","o","x","i","d","e">>
StuffA == <<"S","t","u","f","f"," ","A">>
DEHP == <<"D","E","H","P">>
BisDEHP == <<"B","i","s","(","2","-","e","t","h","y","l","h","e","x","y","l",")"," ",
             "p","h","t","h","a","l","a","t","e"," ","(","D","E","H","P",")">>

Cas_7439_92_1 == <<"7","4","3","9","-","9","2","-","1">>
Cas_7439_92_1_padded == <<" ","7","4","3","9","-","9","2","-","1"," ">>
Cas_111_11_1 == <<"1","1","1","-","1","1","-","1">>
Cas_117_81_7 == <<"1","1","7","-","8","1","-","7">>
Cas_13463_67_7 == <<"1","3","4","6","3","-","6","7","-","7">>
Cas_ec_lower == <<"e","c","1">>
Cas_ec_upper == <<"E","C","1">>

----------------------------------------------------------------------------
(* Matcher harness: the pairs the two copies are applied to *)

NameAlphabet == {"a", "A", "b", " "}

GeneratedNames == UNION {[1..n -> NameAlphabet] : n \in 0..MaxNameLen}

CuratedNames ==
    {Lead, LEAD, ABC, ABCDEF, Dioxide, TitaniumDioxide, StuffA, DEHP, BisDEHP,
     <<"a","b","a">>, <<"a","b","a","b">>, <<"A","b","a","a","b">>, <<"b","a","a","b","a","a">>}

\* addIngredient stores a trimmed, non-empty name and a trimmed CAS number or null
StoredName(s) == s # <<>> /\ trim(s) = s
IngredientCasSet == {NULL, Cas_7439_92_1, Cas_111_11_1, Cas_ec_lower}
\* providers hand back whatever they scraped
EntryCasSet == {NULL, <<>>, Cas_7439_92_1, Cas_7439_92_1_padded, Cas_117_81_7, Cas_ec_upper}

\* generated names meet curated ones, on either side
GeneratedPairs ==
    (CuratedNames \X GeneratedNames)
    \cup {p \in GeneratedNames \X CuratedNames : StoredName(p[1])}

\* CAS columns with at least one side absent (null, or '' on the entry side)
AbsentCasPairs == {<<NULL, NULL>>, <<NULL, Cas_7439_92_1>>, <<Cas_7439_92_1, <<>> >>}

ProbeInputs ==
    {<<p[1], p[2], c[1], c[2]>> : p \in GeneratedPairs, c \in AbsentCasPairs}
    \cup (CuratedNames \X CuratedNames \X IngredientCasSet \X EntryCasSet)

ProbeIdle == [phase |-> "off"]

ProbeInit ==
    \E x \in ProbeInputs :
        probe = [phase |-> "pair",
                 ingredient |-> [ingredient_name |-> x[1], cas_number |-> x[3]],
                 entry |-> [name |-> x[2], casNumber |-> x[4]],
                 post |-> "?", cron |-> "?", postSwapped |-> "?", cronSwapped |-> "?"]

\* the pair with its sides exchanged: the entry's name and CAS number as the
\* ingredient's, and the other way round
SwappedIngredient(entry) == [ingredient_name |-> entry.name, cas_number |-> entry.casNumber]
SwappedEntry(ingredient) == [name |-> ingredient.ingredient_name, casNumber |-> ingredient.cas_number]

\* both handlers' loop bodies decide the pair, as given and with its sides exchanged
Decide ==
    /\ probe.phase = "pair"
    /\ probe' = [probe EXCEPT !.phase = "decided",
                              !.post = MatchKind(probe.ingredient, probe.entry),
                              !.cron = cronMatchKind(probe.ingredient, probe.entry),
                              !.postSwapped = MatchKind(SwappedIngredient(probe.entry),
                                                        SwappedEntry(probe.ingredient)),
                              !.cronSwapped = cronMatchKind(SwappedIngredient(probe.entry),
                                                            SwappedEntry(probe.ingredient))]
    /\ UNCHANGED <<env, monitored_ingredients, regulatory_alerts, run, mail, faults>>

----------------------------------------------------------------------------
(* The world the handlers run in: tenants, ingredient rows, provider lists *)

U1 == <<"u","1">>
U2 == <<"u","2">>
U3 == <<"u","3">>

\* auth.users as listUsers returns it; U3 signed up without an email address
auth_users ==
    << [id |-> U1, email |-> <<"a","@","x">>],
       [id |-> U2, email |-> <<"b","@","x">>],
       [id |-> U3, email |-> NULL] >>

IngredientRows ==
    << [id |-> <<"i","1">>, user_id |-> U1, ingredient_name |-> Lead,    cas_number |-> NULL],
       [id |-> <<"i","2">>, user_id |-> U2, ingredient_name |-> Dioxide, cas_number |-> Cas_111_11_1],
       [id |-> <<"i","3">>, user_id |-> U1, ingredient_name |-> StuffA,  cas_number |-> Cas_7439_92_1],
       [id |-> <<"i","4">>, user_id |-> U3, ingredient_name |-> LEAD,    cas_number |-> NULL] >>

ECHA_SVHC == <<"E","C","H","A","_","S","V","H","C">>
EUR_LEX == <<"E","U","R","_","L","E","X">>
ANSM == <<"A","N","S","M">>

\* what the three providers return (the scrapers themselves are outside the model);
\* ECHA lists Lead twice, the second time without a CAS number, and DEHP under
\* its full name
svhcList ==
    << [name |-> Lead, casNumber |-> Cas_7439_92_1_padded],
       [name |-> Lead, casNumber |-> NULL],
       [name |-> BisDEHP, casNumber |-> Cas_117_81_7] >>
eurlexList == << [name |-> Lead, casNumber |-> <<>>] >>
ansmList == << [name |-> TitaniumDioxide, casNumber |-> Cas_13463_67_7] >>

Tag(list, source) ==
    [k \in 1..Len(list) |-> [name |-> list[k].name, casNumber |-> list[k].casNumber,
                             source |-> source]]

\* a concatenation that puts EUR-Lex first
Normalize_EurLexFirst(echa, eurlex, ansm) ==
    Tag(eurlex, EUR_LEX) \o Tag(echa, ECHA_SVHC) \o Tag(ansm, ANSM)

\* allEntries: the three lists, tagged and concatenated in this order
Normalize(echa, eurlex, ansm) ==
    Tag(echa, ECHA_SVHC) \o Tag(eurlex, EUR_LEX) \o Tag(ansm, ANSM)

\* .eq('user_id', id) on a table, row order kept
RECURSIVE SelectByUser(_, _)
SelectByUser(rows, id) ==
    IF rows = <<>> THEN <<>>
    ELSE (IF Head(rows).user_id = id THEN <<Head(rows)>> ELSE <<>>)
         \o SelectByUser(Tail(rows), id)

\* normalizer harness: the lists a provider may hand back
EntryPool ==
    {[name |-> Lead, casNumber |-> Cas_7439_92_1_padded],
     [name |-> Lead, casNumber |-> NULL],
     [name |-> TitaniumDioxide, casNumber |-> Cas_13463_67_7]}

ProviderLists == UNION {[1..n -> EntryPool] : n \in 0..MaxListLen}

ListsInit ==
    \E echa \in ProviderLists, eurlex \in ProviderLists, ansm \in ProviderLists :
        probe = [phase |-> "lists", echa |-> echa, eurlex |-> eurlex, ansm |-> ansm,
                 allEntries |-> <<>>]

\* both handlers build allEntries from the three lists
NormalizeLists ==
    /\ probe.phase = "lists"
    /\ probe' = [probe EXCEPT !.phase = "normalized",
                              !.allEntries = Normalize(probe.echa, probe.eurlex, probe.ansm)]
    /\ UNCHANGED <<env, monitored_ingredients, regulatory_alerts, run, mail, faults>>

\* a tenant whose one ingredient is entered under its abbreviation, without CAS number
DehpRows ==
    << [id |-> <<"i","5">>, user_id |-> U1, ingredient_name |-> DEHP, cas_number |-> NULL] >>

----------------------------------------------------------------------------
(* The alert store *)

Sep == <<":",":">>

\* a key that leaves the source out
Key_NoSource(ingredient_id, substance_name, source) == ingredient_id \o Sep \o substance_name

\* a key that leaves the ingredient out
Key_NoIngredient(ingredient_id, substance_name, source) == substance_name \o Sep \o source

\* `${ingredient_id}::${substance_name}::${source}`
Key(ingredient_id, substance_name, source) ==
    ingredient_id \o Sep \o substance_name \o Sep \o source

\* the select without its .eq('user_id', ...) filter
SelectAlerts_AllTenants(store, id) == BagToSet(store)

\* select ingredient_id, substance_name, source from regulatory_alerts where user_id = id
SelectAlerts(store, id) == {a \in BagToSet(store) : a.user_id = id}

NewRow(userId, ingredient, entry) ==
    [user_id |-> userId, ingredient_id |-> ingredient.id, substance_name |-> entry.name,
     cas_number |-> entry.casNumber, source |-> entry.source]

\* the columns of the table's composite uniqueness constraint
UniqueColumns(row) == <<row.user_id, row.ingredient_id, row.substance_name, row.source>>

\* a store without the constraint
Conflicts_Unconstrained(store, rows) == FALSE

\* one INSERT statement: it conflicts when a row of it repeats a stored row's
\* unique columns, or two of its rows repeat each other's
Conflicts(store, rows) ==
    \/ \E k \in 1..Len(rows) : \E a \in BagToSet(store) :
           UniqueColumns(a) = UniqueColumns(rows[k])
    \/ \E k, l \in 1..Len(rows) : k # l /\ UniqueColumns(rows[k]) = UniqueColumns(rows[l])

\* a write that refreshes an ingredient's alerts: the ingredient's stored rows
\* are dropped before the new ones go in
AddRows_Refresh(store, rows) ==
    LET ids == {rows[k].ingredient_id : k \in 1..Len(rows)}
        kept == {a \in BagToSet(store) : a.ingredient_id \notin ids}
    IN  SetToBag(kept) (+) SetToBag({rows[k] : k \in 1..Len(rows)})

RECURSIVE AddRows(_, _)
AddRows(store, rows) ==
    IF rows = <<>> THEN store ELSE AddRows(store (+) SetToBag({Head(rows)}), Tail(rows))

\* what one INSERT statement can answer: a conflicting statement is rejected
\* whole; any other may succeed or fail (error), the failure being an injected fault
InsertAnswers(store, rows) ==
    IF Conflicts(store, rows) THEN {"unique"} ELSE {"ok", "error"}

\* an alert of an earlier day, from when EUR-Lex listed titanium dioxide; U2
\* has read it on the dashboard (markAlertAsRead)
OldAlert ==
    [user_id |-> U2, ingredient_id |-> <<"i","2">>, substance_name |-> TitaniumDioxide,
     cas_number |-> Cas_13463_67_7, source |-> EUR_LEX, is_read |-> TRUE]

\* the table as the runs find it
InitialAlerts == SetToBag({OldAlert})

\* history: the (ingredient, substance, source) triples tenant id has rows for
StoredKeys(store, id) ==
    {<<a.ingredient_id, a.substance_name, a.source>> : a \in {b \in BagToSet(store) : b.user_id = id}}

IsFault(answer) == answer \in {"error", "throw"}

Charge(answer) ==
    /\ IsFault(answer) => faults < MaxFaults
    /\ faults' = IF IsFault(answer) THEN faults + 1 ELSE faults

----------------------------------------------------------------------------
(* One handler invocation *)

RunIds == 1..MaxRuns

IdleRun ==
    [kind |-> "none",           \* "POST" (on-demand) or "GET" (scheduled)
     pc |-> "idle",             \* the await the invocation is suspended at
     status |-> 0,              \* HTTP status of the response, once sent
     user |-> NULL,             \* POST: user.id; GET: userId of the loop iteration
     ingredients |-> <<>>,      \* POST: ingredientList; GET: allIngredients
     allEntries |-> <<>>,
     pending |-> <<>>,          \* GET: byUser keys not yet iterated
     existingKeys |-> {},
     i |-> 0, j |-> 0,          \* POST: loop indices of the insert in flight
     alertsCreated |-> 0,       \* POST: alertsCreated; GET: totalAlertsCreated
     duplicatesSkipped |-> 0,
     rowsToInsert |-> <<>>,
     newAlerts |-> <<>>,
     usersChecked |-> 0,
     emailsSent |-> 0,
     emailSent |-> FALSE,
     \* history, read by the properties only
     after |-> {},              \* the runs that had responded when this one started
     auth |-> NULL,             \* GET: the Authorization header of the request
     ingError |-> FALSE,        \* the ingredient query answered with an error
     skipped |-> {},            \* POST: the keys of the matches counted in duplicatesSkipped
     log |-> <<>>]              \* this run's store calls, in order, with their answers

\* an entry of newAlerts; ingredient_id is history (the email carries the name only)
NewAlert(ingredient, entry) ==
    [substanceName |-> entry.name, casNumber |-> entry.casNumber,
     ingredientName |-> ingredient.ingredient_name, source |-> entry.source,
     ingredient_id |-> ingredient.id]

Responded == {r \in RunIds : run[r].pc = "done"}

\* runs are taken in order of their ids
CanStart(r) ==
    /\ run[r].pc = "idle"
    /\ IF r = 1 THEN TRUE ELSE run[r - 1].pc # "idle"

----------------------------------------------------------------------------
(* On-demand handler: POST *)

\* existingKeys.add(key)
AddKey_Forgotten(existingKeys, key) == existingKeys

AddKey(existingKeys, key) == existingKeys \cup {key}

\* the response, and the end of the invocation
PostRespond(s) ==
    [s EXCEPT !.pc = "done", !.status = 200, !.emailSent = Len(s.newAlerts) > 0]

\* after the loops: the Notifier is awaited only when newAlerts is not empty
PostAfterLoop(s) ==
    IF Len(s.newAlerts) > 0 THEN [s EXCEPT !.pc = "notify"] ELSE PostRespond(s)

\* the two nested loops from position (i, j), up to the next awaited insert
RECURSIVE PostLoop(_, _, _)
PostLoop(s, i, j) ==
    IF i > Len(s.ingredients) THEN PostAfterLoop(s)
    ELSE IF j > Len(s.allEntries) THEN PostLoop(s, i + 1, 1)
    ELSE LET ingredient == s.ingredients[i]
             entry == s.allEntries[j]
             key == Key(ingredient.id, entry.name, entry.source)
         IN  IF MatchKind(ingredient, entry) = "NoMatch" THEN PostLoop(s, i, j + 1)
             ELSE IF key \in s.existingKeys
                  THEN PostLoop([s EXCEPT !.duplicatesSkipped = @ + 1,
                                          !.skipped = @ \cup {<<ingredient.id, entry.name, entry.source>>}],
                                i, j + 1)
                  ELSE [s EXCEPT !.existingKeys = AddKey(@, key),
                                 !.i = i, !.j = j, !.pc = "insert"]

\* a handler whose email failure escapes the route
PostEmailCatch_Propagates(s) == [s EXCEPT !.pc = "done", !.status = 500]

\* catch (emailErr): logged, and the response is built as usual
PostEmailCatch(s) == PostRespond(s)

\* a loop that gives up at the first failed insert
PostInsertFailed_Break(s, i, j) == PostAfterLoop(s)

\* `if (insertError)`: logged, and the inner loop goes on with the next entry
PostInsertFailed(s, i, j) == PostLoop(s, i, j + 1)

\* a handler that falls back to `ingredients ?? []` without looking at ingError
PostAfterFetch_ErrorIgnored(s, answer, rows, entries) ==
    [s EXCEPT !.ingError = (answer = "error"), !.pc = "read",
              !.ingredients = IF answer = "error" THEN <<>> ELSE rows,
              !.allEntries = entries]

\* after Promise.all: `if (ingError) return 500`, else ingredientList and allEntries
PostAfterFetch(s, answer, rows, entries) ==
    IF answer = "error"
    THEN [s EXCEPT !.ingError = TRUE, !.pc = "done", !.status = 500]
    ELSE [s EXCEPT !.pc = "read", !.ingredients = rows, !.allEntries = entries]

\* keys that leave the source out, as before the table had several sources
ExistingKeys_NoSource(existingAlerts) ==
    {a.ingredient_id \o Sep \o a.substance_name : a \in existingAlerts}

\* keys that would hold for a substance whichever list reported it
ExistingKeys_AnySource(existingAlerts) ==
    {Key(a.ingredient_id, a.substance_name, source) :
        a \in existingAlerts, source \in {ECHA_SVHC, EUR_LEX, ANSM}}

\* new Set(existingAlerts.map(...)) over the rows the query returned
ExistingKeys(existingAlerts) ==
    {Key(a.ingredient_id, a.substance_name, a.source) : a \in existingAlerts}

\* an insert whose error is never looked at
insertError_Ignored(answer) == FALSE

\* `if (insertError)`: any answer but success carries an error
insertError(answer) == answer # "ok"

PostUsers == {U1, U2}

\* getUser fails: 401 before anything is fetched
PostUnauthorized(r) ==
    /\ CanStart(r)
    /\ run' = [run EXCEPT ![r] = [IdleRun EXCEPT !.kind = "POST", !.pc = "done",
                                                 !.status = 401, !.after = Responded]]
    /\ UNCHANGED <<env, monitored_ingredients, probe, regulatory_alerts, mail, faults>>

\* getUser succeeds; providers and the ingredient query are awaited together
PostStart(r) ==
    /\ CanStart(r)
    /\ \E u \in PostUsers, answer \in {"ok", "error"} :
        /\ Charge(answer)
        /\ run' = [run EXCEPT ![r] =
              PostAfterFetch([IdleRun EXCEPT !.kind = "POST", !.user = u, !.after = Responded],
                             answer,
                             SelectByUser(monitored_ingredients, u),
                             Normalize(svhcList, eurlexList, ansmList))]
    /\ UNCHANGED <<env, monitored_ingredients, probe, regulatory_alerts, mail>>

\* the existing-alerts query; its error is not looked at, a failed read leaves
\* existingAlerts null and the key set empty.  The loops then run to the first insert.
PostReadExisting(r) ==
    /\ run[r].kind = "POST" /\ run[r].pc = "read"
    /\ \E answer \in {"ok", "error"} :
        /\ Charge(answer)
        /\ LET s == run[r]
               keys == IF answer = "ok"
                       THEN ExistingKeys(SelectAlerts(regulatory_alerts, s.user))
                       ELSE ExistingKeys({})
               ev == [op |-> "read", user |-> s.user, answer |-> answer, keys |-> keys,
                      stored |-> StoredKeys(regulatory_alerts, s.user)]
           IN  run' = [run EXCEPT ![r] =
                   PostLoop([s EXCEPT !.existingKeys = keys, !.log = Append(@, ev)], 1, 1)]
    /\ UNCHANGED <<env, monitored_ingredients, probe, regulatory_alerts, mail>>

\* one awaited insert of the pair at (i, j); on insertError the alert is neither
\* counted nor queued for the email; the loops then go on
PostInsert(r) ==
    /\ run[r].kind = "POST" /\ run[r].pc = "insert"
    /\ LET s == run[r]
           ingredient == s.ingredients[s.i]
           entry == s.allEntries[s.j]
           rows == << NewRow(s.user, ingredient, entry) >>
       IN  \E answer \in InsertAnswers(regulatory_alerts, rows) :
            /\ Charge(answer)
            /\ regulatory_alerts' =
                 IF answer = "ok" THEN AddRows(regulatory_alerts, rows) ELSE regulatory_alerts
            /\ LET ev == [op |-> "insert", user |-> s.user, answer |-> answer, rows |-> rows]
                   t == IF ~insertError(answer)
                        THEN [s EXCEPT !.alertsCreated = @ + 1,
                                       !.newAlerts = Append(@, NewAlert(ingredient, entry)),
                                       !.log = Append(@, ev)]
                        ELSE [s EXCEPT !.log = Append(@, ev)]
               IN  run' = [run EXCEPT ![r] =
                     IF insertError(answer) THEN PostInsertFailed(t, s.i, s.j)
                     ELSE PostLoop(t, s.i, s.j + 1)]
    /\ UNCHANGED <<env, monitored_ingredients, probe, mail>>

\* sendAlertEmail inside try/catch: a throw is logged and swallowed
PostNotify(r) ==
    /\ run[r].kind = "POST" /\ run[r].pc = "notify"
    /\ \E answer \in {"ok", "throw"} :
        /\ Charge(answer)
        /\ mail' = mail \cup {[run |-> r, to |-> run[r].user, alerts |-> run[r].newAlerts,
                               answer |-> answer, stored |-> regulatory_alerts,
                               alertsCreated |-> run[r].alertsCreated,
                               duplicatesSkipped |-> run[r].duplicatesSkipped]}
        /\ run' = [run EXCEPT ![r] =
              IF answer = "throw" THEN PostEmailCatch(run[r]) ELSE PostRespond(run[r])]
    /\ UNCHANGED <<env, monitored_ingredients, probe, regulatory_alerts>>

----------------------------------------------------------------------------
(* Scheduled handler: GET *)

Bearer == <<"B","e","a","r","e","r"," ">>

\* the value CRON_SECRET is configured with
CRON_SECRET == <<"s","3","c","r","3","t">>

\* process.env of a deployment with the secret set, and of one without it
EnvConfigured == [CRON_SECRET |-> CRON_SECRET]
EnvUnset == [CRON_SECRET |-> NULL]

\* `${x}` in a template string: undefined prints as the word
Interpolate(x) == IF x = NULL THEN <<"u","n","d","e","f","i","n","e","d">> ELSE x

\* the Authorization headers a caller may send (null: no header)
Headers == {NULL, Bearer \o CRON_SECRET, Bearer \o <<"g","u","e","s","s">>,
            Bearer \o <<"u","n","d","e","f","i","n","e","d">>}

\* a check of the scheme only
Authorized_SchemeOnly(auth) == auth # NULL /\ Len(auth) >= Len(Bearer) /\ SubSeq(auth, 1, Len(Bearer)) = Bearer

\* `auth !== \`Bearer ${process.env.CRON_SECRET}\`` negated
Authorized(auth) == auth = Bearer \o Interpolate(env.CRON_SECRET)

\* emailMap.get(userId): `u.email ?? ''` for a listed user, undefined otherwise
EmailOf(userId) ==
    LET hits == {k \in 1..Len(auth_users) : auth_users[k].id = userId}
    IN  IF hits = {} THEN NULL
        ELSE LET email == auth_users[CHOOSE k \in hits : TRUE].email
             IN  IF email = NULL THEN <<>> ELSE email

\* the keys of byUser in Map insertion order: first appearance in allIngredients
RECURSIVE UserOrder(_, _)
UserOrder(rows, seen) ==
    IF rows = <<>> THEN <<>>
    ELSE IF Head(rows).user_id \in seen THEN UserOrder(Tail(rows), seen)
    ELSE <<Head(rows).user_id>> \o UserOrder(Tail(rows), seen \cup {Head(rows).user_id})

\* keys that would hold for a substance whatever list reported it
cronExistingKeys_AnySource(existingAlerts) ==
    {Key(a.ingredient_id, a.substance_name, source) :
        a \in existingAlerts, source \in {ECHA_SVHC, EUR_LEX, ANSM}}

cronExistingKeys(existingAlerts) ==
    {Key(a.ingredient_id, a.substance_name, a.source) : a \in existingAlerts}

cronAddKey(existingKeys, key) == existingKeys \cup {key}

\* the final response
CronRespond(s) == [s EXCEPT !.pc = "done", !.status = 200, !.user = NULL]

\* top of the for-of loop: tenants without an email are skipped, the next one
\* with an email is entered up to its first await
RECURSIVE CronNext(_)
CronNext(s) ==
    IF s.pending = <<>> THEN CronRespond(s)
    ELSE LET userId == Head(s.pending)
         IN  IF ~Truthy(EmailOf(userId))
             THEN CronNext([s EXCEPT !.pending = Tail(@)])
             ELSE [s EXCEPT !.pending = Tail(@), !.user = userId, !.pc = "read",
                            !.existingKeys = {}, !.rowsToInsert = <<>>, !.newAlerts = <<>>]

\* a handler without the per-user try/catch
CronCatch_Propagates(s) == [s EXCEPT !.pc = "done", !.status = 500, !.user = NULL]

\* catch (userErr): logged, and the loop goes on with the next tenant
CronCatch(s) == CronNext(s)

\* the two nested loops of one tenant: nothing is awaited inside them
RECURSIVE CronLoop(_, _, _, _)
CronLoop(s, ingredients, i, j) ==
    IF i > Len(ingredients) THEN s
    ELSE IF j > Len(s.allEntries) THEN CronLoop(s, ingredients, i + 1, 1)
    ELSE LET ingredient == ingredients[i]
             entry == s.allEntries[j]
             key == Key(ingredient.id, entry.name, entry.source)
         IN  IF cronMatchKind(ingredient, entry) = "NoMatch"
             THEN CronLoop(s, ingredients, i, j + 1)
             ELSE IF key \in s.existingKeys THEN CronLoop(s, ingredients, i, j + 1)
             ELSE CronLoop([s EXCEPT !.existingKeys = cronAddKey(@, key),
                                     !.rowsToInsert = Append(@, NewRow(s.user, ingredient, entry)),
                                     !.newAlerts = Append(@, NewAlert(ingredient, entry))],
                           ingredients, i, j + 1)

\* usersChecked++, then the email when newAlerts is not empty
CronAfterInsert(s) ==
    LET t == [s EXCEPT !.usersChecked = @ + 1]
    IN  IF Len(t.newAlerts) > 0 THEN [t EXCEPT !.pc = "notify"] ELSE CronNext(t)

\* an insert error that is never looked at
cronInsertError_Ignored(answer) == FALSE

\* `if (insertError) ... else totalAlertsCreated += rowsToInsert.length`
cronInsertError(answer) == answer # "ok"

\* a missing or wrong Authorization header: 401 before anything is fetched
GetRejected(r) ==
    /\ CanStart(r)
    /\ \E auth \in Headers :
        /\ ~Authorized(auth)
        /\ run' = [run EXCEPT ![r] = [IdleRun EXCEPT !.kind = "GET", !.pc = "done",
                                                     !.status = 401, !.after = Responded,
                                                     !.auth = auth]]
    /\ UNCHANGED <<env, monitored_ingredients, probe, regulatory_alerts, mail, faults>>

\* providers, the ingredient query, listUsers and the grouping by user
GetStart(r) ==
    /\ CanStart(r)
    /\ \E auth \in Headers, answer \in {"ok", "error"} :
        /\ Authorized(auth)
        /\ Charge(answer)
        /\ LET s == [IdleRun EXCEPT !.kind = "GET", !.after = Responded, !.auth = auth]
           IN  run' = [run EXCEPT ![r] =
                 IF answer = "error" THEN [s EXCEPT !.ingError = TRUE, !.pc = "done", !.status = 500]
                 ELSE IF Len(monitored_ingredients) = 0 THEN [s EXCEPT !.pc = "done", !.status = 200]
                 ELSE CronNext([s EXCEPT !.ingredients = monitored_ingredients,
                                         !.allEntries = Normalize(svhcList, eurlexList, ansmList),
                                         !.pending = UserOrder(monitored_ingredients, {})])]
    /\ UNCHANGED <<env, monitored_ingredients, probe, regulatory_alerts, mail>>

\* the tenant's existing-alerts query (its error is not looked at; a throw goes
\* to the catch), then the tenant's loops
GetReadExisting(r) ==
    /\ run[r].kind = "GET" /\ run[r].pc = "read"
    /\ \E answer \in {"ok", "error", "throw"} :
        /\ Charge(answer)
        /\ LET s == run[r]
               keys == IF answer = "ok"
                       THEN cronExistingKeys(SelectAlerts(regulatory_alerts, s.user))
                       ELSE cronExistingKeys({})
               ev == [op |-> "read", user |-> s.user, answer |-> answer, keys |-> keys,
                      stored |-> StoredKeys(regulatory_alerts, s.user)]
               logged == [s EXCEPT !.log = Append(@, ev)]
               t == CronLoop([logged EXCEPT !.existingKeys = keys],
                             SelectByUser(s.ingredients, s.user), 1, 1)
           IN  run' = [run EXCEPT ![r] =
                 IF answer = "throw" THEN CronCatch(logged)
                 ELSE IF Len(t.rowsToInsert) > 0 THEN [t EXCEPT !.pc = "insert"]
                 ELSE CronAfterInsert(t)]
    /\ UNCHANGED <<env, monitored_ingredients, probe, regulatory_alerts, mail>>

\* the tenant's single batch insert; insertError is logged and nothing else
GetInsert(r) ==
    /\ run[r].kind = "GET" /\ run[r].pc = "insert"
    /\ LET s == run[r]
       IN  \E answer \in InsertAnswers(regulatory_alerts, s.rowsToInsert) \cup {"throw"} :
            /\ Charge(answer)
            /\ regulatory_alerts' =
                 IF answer = "ok" THEN AddRows(regulatory_alerts, s.rowsToInsert)
                 ELSE regulatory_alerts
            /\ LET ev == [op |-> "insert", user |-> s.user, answer |-> answer,
                          rows |-> s.rowsToInsert]
                   logged == [s EXCEPT !.log = Append(@, ev)]
               IN  run' = [run EXCEPT ![r] =
                     IF answer = "throw" THEN CronCatch(logged)
                     ELSE IF ~cronInsertError(answer)
                     THEN CronAfterInsert([logged EXCEPT !.alertsCreated = @ + Len(s.rowsToInsert)])
                     ELSE CronAfterInsert(logged)]
    /\ UNCHANGED <<env, monitored_ingredients, probe, mail>>

\* sendAlertEmail inside the inner try/catch
GetNotify(r) ==
    /\ run[r].kind = "GET" /\ run[r].pc = "notify"
    /\ \E answer \in {"ok", "throw"} :
        /\ Charge(answer)
        /\ mail' = mail \cup {[run |-> r, to |-> run[r].user, alerts |-> run[r].newAlerts,
                               answer |-> answer, stored |-> regulatory_alerts,
                               alertsCreated |-> run[r].alertsCreated,
                               duplicatesSkipped |-> run[r].duplicatesSkipped]}
        /\ run' = [run EXCEPT ![r] =
              CronNext(IF answer = "ok" THEN [run[r] EXCEPT !.emailsSent = @ + 1] ELSE run[r])]
    /\ UNCHANGED <<env, monitored_ingredients, probe, regulatory_alerts>>

----------------------------------------------------------------------------
(* One run on its own: what a handler does from request to response when no
   other run interleaves and no call fails, as a function of what it reads *)

\* the on-demand handler from an awaited insert on, every insert answered by the
\* store as it stands
RECURSIVE PostSolo(_, _)
PostSolo(s, store) ==
    IF s.pc # "insert" THEN [store |-> store, run |-> s]
    ELSE LET ingredient == s.ingredients[s.i]
             entry == s.allEntries[s.j]
             rows == << NewRow(s.user, ingredient, entry) >>
         IN  IF Conflicts(store, rows)
             THEN PostSolo(PostInsertFailed(s, s.i, s.j), store)
             ELSE PostSolo(PostLoop([s EXCEPT !.alertsCreated = @ + 1,
                                              !.newAlerts = Append(@, NewAlert(ingredient, entry))],
                                    s.i, s.j + 1),
                           AddRows(store, rows))

\* POST for user u: what it leaves in the table and what it hands to sendAlertEmail
PostRun(u, table, entries, store) ==
    LET s0 == PostAfterFetch([IdleRun EXCEPT !.kind = "POST", !.user = u], "ok",
                             SelectByUser(table, u), entries)
        s1 == PostLoop([s0 EXCEPT !.existingKeys = ExistingKeys(SelectAlerts(store, u))], 1, 1)
        end == PostSolo(s1, store)
    IN  [store |-> end.store,
         mail |-> IF Len(end.run.newAlerts) > 0
                  THEN {[to |-> u, alerts |-> end.run.newAlerts]} ELSE {}]

\* the scheduled handler's for-of loop over the tenants in `pending`
RECURSIVE CronSolo(_, _, _, _, _)
CronSolo(pending, table, entries, store, sent) ==
    IF pending = <<>> THEN [store |-> store, mail |-> sent]
    ELSE LET userId == Head(pending)
         IN  IF ~Truthy(EmailOf(userId))
             THEN CronSolo(Tail(pending), table, entries, store, sent)
             ELSE LET s == [IdleRun EXCEPT !.kind = "GET", !.user = userId,
                                           !.allEntries = entries,
                                           !.existingKeys = cronExistingKeys(SelectAlerts(store, userId))]
                      t == CronLoop(s, SelectByUser(table, userId), 1, 1)
                      stored == IF Len(t.rowsToInsert) > 0 /\ ~Conflicts(store, t.rowsToInsert)
                                THEN AddRows(store, t.rowsToInsert) ELSE store
                      mailed == IF Len(t.newAlerts) > 0
                                THEN sent \cup {[to |-> userId, alerts |-> t.newAlerts]} ELSE sent
                  IN  CronSolo(Tail(pending), table, entries, stored, mailed)

\* GET with a valid token
CronRun(table, entries, store) == CronSolo(UserOrder(table, {}), table, entries, store, {})

\* the three tagged provider lists, and their concatenation in a given order
TaggedLists == << Tag(svhcList, ECHA_SVHC), Tag(eurlexList, EUR_LEX), Tag(ansmList, ANSM) >>
ConcatIn(order) == TaggedLists[order[1]] \o TaggedLists[order[2]] \o TaggedLists[order[3]]

Orderings(n) == {f \in [1..n -> 1..n] : \A a, b \in 1..n : f[a] = f[b] => a = b}

\* the ingredient table in any row order (the queries carry no ORDER BY)
TableOrders ==
    {[k \in 1..Len(IngredientRows) |-> IngredientRows[f[k]]] : f \in Orderings(Len(IngredientRows))}

\* tables the run may start from: empty, the old alert, and two of U1's alerts on top of it
StoreChoices ==
    {EmptyBag,
     InitialAlerts,
     InitialAlerts (+) SetToBag({NewRow(U1, IngredientRows[1], TaggedLists[2][1])}),
     InitialAlerts (+) SetToBag({NewRow(U1, IngredientRows[3], TaggedLists[1][1])})}

SoloInit ==
    /\ env = EnvConfigured
    /\ monitored_ingredients \in TableOrders
    /\ regulatory_alerts \in StoreChoices
    /\ \E order \in Orderings(3), u \in PostUsers :
           probe = [phase |-> "solo", order |-> order, user |-> u,
                    cron |-> "?", reference |-> "?", reordered |-> "?",
                    post |-> "?", single |-> "?"]
    /\ run = [r \in RunIds |-> IdleRun]
    /\ mail = {}
    /\ faults = 0

\* the scheduled handler as written and with the lists concatenated in the
\* probe's order; and both handlers over the probe's tenant alone
Solo ==
    /\ probe.phase = "solo"
    /\ LET entries == Normalize(svhcList, eurlexList, ansmList)
           own == SelectByUser(monitored_ingredients, probe.user)
       IN  probe' = [probe EXCEPT
               !.phase = "solo done",
               !.cron = CronRun(monitored_ingredients, entries, regulatory_alerts),
               !.reference = CronRun(IngredientRows, entries, regulatory_alerts),
               !.reordered = CronRun(monitored_ingredients, ConcatIn(probe.order), regulatory_alerts),
               !.post = PostRun(probe.user, own, entries, regulatory_alerts),
               !.single = CronRun(own, entries, regulatory_alerts)]
    /\ UNCHANGED <<env, monitored_ingredients, regulatory_alerts, run, mail, faults>>

----------------------------------------------------------------------------
(* Specifications *)

\* the handlers over a table that holds one alert of an earlier day
Init ==
    /\ env = EnvConfigured
    /\ monitored_ingredients = IngredientRows
    /\ probe = ProbeIdle
    /\ regulatory_alerts = InitialAlerts
    /\ run = [r \in RunIds |-> IdleRun]
    /\ mail = {}
    /\ faults = 0

Next ==
    \E r \in RunIds :
        \/ PostUnauthorized(r)
        \/ PostStart(r)
        \/ PostReadExisting(r)
        \/ PostInsert(r)
        \/ PostNotify(r)
        \/ GetRejected(r)
        \/ GetStart(r)
        \/ GetReadExisting(r)
        \/ GetInsert(r)
        \/ GetNotify(r)

Spec == Init /\ [][Next]_vars

\* the handlers over the table of the tenant that monitors DEHP
DehpInit ==
    /\ env = EnvConfigured
    /\ monitored_ingredients = DehpRows
    /\ probe = ProbeIdle
    /\ regulatory_alerts = InitialAlerts
    /\ run = [r \in RunIds |-> IdleRun]
    /\ mail = {}
    /\ faults = 0

DehpSpec == DehpInit /\ [][Next]_vars

\* the handlers in a process where CRON_SECRET is not set
UnsetSecretInit ==
    /\ env = EnvUnset
    /\ monitored_ingredients = IngredientRows
    /\ probe = ProbeIdle
    /\ regulatory_alerts = InitialAlerts
    /\ run = [r \in RunIds |-> IdleRun]
    /\ mail = {}
    /\ faults = 0

UnsetSecretSpec == UnsetSecretInit /\ [][Next]_vars

\* the matcher alone, on every pair of the harness
MatchInit ==
    /\ ProbeInit
    /\ env = EnvConfigured
    /\ monitored_ingredients = IngredientRows
    /\ regulatory_alerts = EmptyBag
    /\ run = [r \in RunIds |-> IdleRun]
    /\ mail = {}
    /\ faults = 0

MatchNext == Decide

MatchSpec == MatchInit /\ [][MatchNext]_vars

\* the normalizer alone, on every triple of lists of the harness
NormInit ==
    /\ ListsInit
    /\ env = EnvConfigured
    /\ monitored_ingredients = IngredientRows
    /\ regulatory_alerts = InitialAlerts
    /\ run = [r \in RunIds |-> IdleRun]
    /\ mail = {}
    /\ faults = 0

NormNext == NormalizeLists

NormSpec == NormInit /\ [][NormNext]_vars

\* one run on its own, over every row order, list order and starting table
SoloNext == Solo

SoloSpec == SoloInit /\ [][SoloNext]_vars

----------------------------------------------------------------------------
(* Properties of the matcher (under MatchSpec) *)

ProbeDecided == probe.phase = "decided"

\* a CAS number that is there: neither null nor ''
Present(cas) == cas # NULL /\ cas # <<>>

BothCasPresent == Present(probe.ingredient.cas_number) /\ Present(probe.entry.casNumber)

NormalisedCasEqual ==
    toLowerCase(trim(probe.ingredient.cas_number)) = toLowerCase(trim(probe.entry.casNumber))

ProbeNameA == trim(toLowerCase(probe.ingredient.ingredient_name))
ProbeNameB == trim(toLowerCase(probe.entry.name))

\* C1: when both CAS numbers are present and differ after normalisation, both
\* handlers' matchers answer NoMatch, whatever the names are.
C1_CasMismatchIsNoMatch ==
    (ProbeDecided /\ BothCasPresent /\ ~NormalisedCasEqual)
        => (probe.post = "NoMatch" /\ probe.cron = "NoMatch")

\* C2: when both CAS numbers are non-empty and equal after trimming and
\* lower-casing, both handlers' matchers answer CasMatch, whatever the names are.
C2_CasEqualIsCasMatch ==
    (ProbeDecided /\ BothCasPresent /\ NormalisedCasEqual)
        => (probe.post = "CasMatch" /\ probe.cron = "CasMatch")

\* C2 witness: equal only after normalisation, names unrelated, answered CasMatch
C2_Witness ==
    /\ ProbeDecided
    /\ probe.ingredient.ingredient_name = StuffA /\ probe.entry.name = Lead
    /\ probe.ingredient.cas_number = Cas_7439_92_1
    /\ probe.entry.casNumber = Cas_7439_92_1_padded
    /\ probe.post = "CasMatch" /\ probe.cron = "CasMatch"

\* the name rule as the claim words it
NameRule ==
    \/ (Len(ProbeNameA) < 4 \/ Len(ProbeNameB) < 4) /\ ProbeNameA = ProbeNameB
    \/ /\ Len(ProbeNameA) >= 4 /\ Len(ProbeNameB) >= 4
       /\ includes(ProbeNameA, ProbeNameB) \/ includes(ProbeNameB, ProbeNameA)

C22_MatchIsSymmetric ==
    ProbeDecided => (probe.postSwapped = probe.post /\ probe.cronSwapped = probe.cron)

\* C22 witness: the entry's name is found inside the longer ingredient name, and
\* the exchanged pair, where the short name is the ingredient's, is a NameMatch too
C22_Witness ==
    /\ ProbeDecided /\ ~BothCasPresent
    /\ Len(ProbeNameA) > Len(ProbeNameB) /\ Len(ProbeNameB) >= 4
    /\ probe.post = "NameMatch" /\ probe.postSwapped = "NameMatch"
    /\ probe.cron = "NameMatch" /\ probe.cronSwapped = "NameMatch"

----------------------------------------------------------------------------
(* Properties of the handlers (under Spec) *)

RowKey(row) == <<row.ingredient_id, row.substance_name, row.source>>
AlertKey(alert) == <<alert.ingredient_id, alert.substanceName, alert.source>>

\* the store calls of run r: positions in its log
Events(r) == 1..Len(run[r].log)
Reads(r) == {k \in Events(r) : run[r].log[k].op = "read"}
Inserts(r) == {k \in Events(r) : run[r].log[k].op = "insert"}

\* every row run r handed to an insert, as <<event, position in the statement>>
Tried(r) == {<<k, n>> \in Inserts(r) \X (1..8) : n <= Len(run[r].log[k].rows)}
TriedRow(r, t) == run[r].log[t[1]].rows[t[2]]

\* the dedup keys run r persisted for tenant u
Persisted(r, u) ==
    {RowKey(TriedRow(r, t)) : t \in {x \in Tried(r) :
        run[r].log[x[1]].user = u /\ run[r].log[x[1]].answer = "ok"}}

\* run r met no failed or rejected insert
NoWriteFailure(r) == \A k \in Inserts(r) : run[r].log[k].answer = "ok"

\* C4: within one run no dedup key of a tenant is accepted twice: of two matches
\* with one key only the first reaches the store, the later one is discarded.
C4_NoKeyAcceptedTwice ==
    \A r \in RunIds : \A t1, t2 \in Tried(r) :
        (t1 # t2 /\ run[r].log[t1[1]].user = run[r].log[t2[1]].user)
            => RowKey(TriedRow(r, t1)) # RowKey(TriedRow(r, t2))

\* C4 witness: an on-demand run for a tenant without alerts that met ECHA's second
\* listing of Lead, counted it as a duplicate and stored the first one once
C4_Witness ==
    \E r \in RunIds :
        /\ run[r].kind = "POST" /\ run[r].status = 200 /\ run[r].user = U1
        /\ run[r].log[1].answer = "ok" /\ run[r].log[1].keys = {}
        /\ run[r].duplicatesSkipped = 1
        /\ <<<<"i","1">>, Lead, ECHA_SVHC>> \in Persisted(r, U1)
        /\ CopiesIn([user_id |-> U1, ingredient_id |-> <<"i","1">>, substance_name |-> Lead,
                     cas_number |-> Cas_7439_92_1_padded, source |-> ECHA_SVHC],
                    regulatory_alerts) = 1

\* r2 is an on-demand run that started after the on-demand run r1 of the same
\* tenant had responded, and both ran to their 200 response
InSuccession(r1, r2) ==
    /\ run[r1].kind = "POST" /\ run[r2].kind = "POST"
    /\ run[r1].user = run[r2].user
    /\ r1 \in run[r2].after
    /\ run[r1].status = 200
    /\ run[r2].pc = "done" /\ run[r2].status = 200

\* C5: after an on-demand run without write failure, the tenant's next on-demand
\* run reports alertsCreated = 0, stores no row and sends no notification.
C5_SecondRunCreatesNothing ==
    \A r1, r2 \in RunIds :
        (InSuccession(r1, r2) /\ NoWriteFailure(r1))
            => /\ run[r2].alertsCreated = 0
               /\ Persisted(r2, run[r2].user) = {}
               /\ ~run[r2].emailSent
               /\ \A m \in mail : m.run # r2

\* C5 witness: the first run stored the tenant's three alerts, the second one
\* found them all and created none
C5_Witness ==
    \E r1, r2 \in RunIds :
        /\ InSuccession(r1, r2) /\ NoWriteFailure(r1)
        /\ run[r1].user = U1
        /\ run[r1].alertsCreated = 3
        /\ run[r2].alertsCreated = 0 /\ run[r2].duplicatesSkipped = 4

ReadOk(r) == \A k \in Reads(r) : run[r].log[k].answer = "ok"

C7_OneAlertPerKey ==
    \A a \in BagToSet(regulatory_alerts) :
        /\ CopiesIn(a, regulatory_alerts) = 1
        /\ \A b \in BagToSet(regulatory_alerts) :
             (/\ a.user_id = b.user_id /\ a.ingredient_id = b.ingredient_id
              /\ a.substance_name = b.substance_name /\ a.source = b.source) => a = b

\* C7 witness: two runs read the same tenant's empty key set before either wrote,
\* one stored a row and the other's insert of it was rejected
C7_Witness ==
    \E r1, r2 \in RunIds :
        /\ r1 # r2
        /\ \E k1 \in Reads(r1), k2 \in Reads(r2) :
             /\ run[r1].log[k1].user = U1 /\ run[r2].log[k2].user = U1
             /\ run[r1].log[k1].answer = "ok" /\ run[r2].log[k2].answer = "ok"
             /\ run[r1].log[k1].keys = {} /\ run[r2].log[k2].keys = {}
        /\ Persisted(r1, U1) # {}
        /\ \E t \in Tried(r2) :
             /\ run[r2].log[t[1]].answer = "unique"
             /\ RowKey(TriedRow(r2, t)) \in Persisted(r1, U1)

BatchKeys(m) == {AlertKey(m.alerts[n]) : n \in 1..Len(m.alerts)}

\* C8: of two runs racing for a tenant (each having loaded the tenant's existing
\* keys), the one whose insert of a key was rejected as a uniqueness violation
\* leaves that alert out of its notification, so no key is notified by both.
C8_RejectedNotNotified ==
    /\ \A m \in mail : \A t \in Tried(m.run) :
         (/\ ReadOk(m.run)
          /\ run[m.run].log[t[1]].answer = "unique" /\ run[m.run].log[t[1]].user = m.to)
             => RowKey(TriedRow(m.run, t)) \notin BatchKeys(m)
    /\ \A m1, m2 \in mail :
         (/\ ReadOk(m1.run) /\ ReadOk(m2.run)
          /\ m1.run # m2.run /\ m1.to = m2.to) => BatchKeys(m1) \cap BatchKeys(m2) = {}

\* C9: the Notifier is called at most once per tenant per run, only after the run
\* stored an alert for the tenant, with exactly the alerts the run stored, all of
\* them in the table when it is called.
C9_BatchIsWhatWasPersisted ==
    /\ \A m1, m2 \in mail : (m1.run = m2.run /\ m1.to = m2.to) => m1 = m2
    /\ \A m \in mail :
         /\ Persisted(m.run, m.to) # {}
         /\ BatchKeys(m) = Persisted(m.run, m.to)
         /\ \A key \in BatchKeys(m) : \E a \in BagToSet(m.stored) :
              a.user_id = m.to /\ RowKey(a) = key

\* the tenants of a scheduled run, and what it did for one of them
TenantsOf(r) == {run[r].ingredients[k].user_id : k \in 1..Len(run[r].ingredients)}
HasEmail(u) == \E k \in 1..Len(auth_users) : auth_users[k].id = u /\ Present(auth_users[k].email)
FailedFor(r, u) == \E k \in Events(r) : run[r].log[k].user = u /\ run[r].log[k].answer # "ok"

\* the dedup keys of tenant u's matching pairs, by the scheduled handler's matcher
MatchKeys(r, u) ==
    {<<run[r].ingredients[i].id, run[r].allEntries[j].name, run[r].allEntries[j].source>> :
        <<i, j>> \in {x \in (1..Len(run[r].ingredients)) \X (1..Len(run[r].allEntries)) :
            /\ run[r].ingredients[x[1]].user_id = u
            /\ cronMatchKind(run[r].ingredients[x[1]], run[r].allEntries[x[2]]) # "NoMatch"}}

\* tenant u got its turn: its existing alerts were read; unless that call threw,
\* its new matches (if any) went into one insert; unless that call threw, its
\* notification was attempted
Processed(r, u) ==
    \E k \in Reads(r) :
        /\ run[r].log[k].user = u
        /\ run[r].log[k].answer # "throw" =>
             LET new == {key \in MatchKeys(r, u) :
                            Key(key[1], key[2], key[3]) \notin run[r].log[k].keys}
             IN  new # {} =>
                   \E n \in Inserts(r) :
                       /\ run[r].log[n].user = u
                       /\ {RowKey(run[r].log[n].rows[x]) : x \in 1..Len(run[r].log[n].rows)} = new
                       /\ run[r].log[n].answer = "ok" =>
                            \A x \in 1..Len(run[r].log[n].rows) :
                                BagIn(run[r].log[n].rows[x], regulatory_alerts)
                       /\ run[r].log[n].answer # "throw" =>
                            \E m \in mail : m.run = r /\ m.to = u

\* C10: in a scheduled run, a write failure or an exception met for tenant A
\* never keeps another tenant B (one with an email address) from its turn.
C10_TenantIsolation ==
    \A r \in RunIds :
        (run[r].kind = "GET" /\ run[r].pc = "done" /\ run[r].ingredients # <<>>)
            => \A A, B \in TenantsOf(r) :
                   (A # B /\ HasEmail(B) /\ FailedFor(r, A)) => Processed(r, B)

\* C10 witness: U1's batch insert failed or threw, U2's alert was stored and notified
C10_Witness ==
    \E r \in RunIds :
        /\ run[r].kind = "GET" /\ run[r].pc = "done" /\ run[r].status = 200
        /\ \E k \in Inserts(r) : run[r].log[k].user = U1 /\ run[r].log[k].answer \in {"error", "throw"}
        /\ Persisted(r, U2) # {}
        /\ \E m \in mail : m.run = r /\ m.to = U2

----------------------------------------------------------------------------
(* Completeness and failure handling (under Spec) *)

\* the dedup keys of the matching pairs of an on-demand run, by its own matcher
PostMatchKeys(r) ==
    {<<run[r].ingredients[x[1]].id, run[r].allEntries[x[2]].name, run[r].allEntries[x[2]].source>> :
        x \in {y \in (1..Len(run[r].ingredients)) \X (1..Len(run[r].allEntries)) :
            MatchKind(run[r].ingredients[y[1]], run[r].allEntries[y[2]]) # "NoMatch"}}

\* tenant u has a row with this key in the table
HasAlert(u, key) ==
    \E a \in BagToSet(regulatory_alerts) : a.user_id = u /\ RowKey(a) = key

ReadsFor(r, u) == {k \in Reads(r) : run[r].log[k].user = u}
InsertsFor(r, u) == {k \in Inserts(r) : run[r].log[k].user = u}
Threw(r, u) == \E k \in Events(r) : run[r].log[k].user = u /\ run[r].log[k].answer = "throw"
InsertsOk(r, u) == \A k \in InsertsFor(r, u) : run[r].log[k].answer = "ok"

\* C11: when a run has completed and none of its inserts failed (for the
\* scheduled run: none of the tenant's, the tenant having been processed without
\* an exception), every matching (ingredient, entry) pair of the tenant has an
\* alert with its key in the table.
C11_NoMatchWithoutAlert ==
    \A r \in RunIds :
        (run[r].pc = "done" /\ run[r].status = 200) =>
            /\ (run[r].kind = "POST" /\ NoWriteFailure(r))
                   => \A key \in PostMatchKeys(r) : HasAlert(run[r].user, key)
            /\ run[r].kind = "GET"
                   => \A u \in TenantsOf(r) :
                          (ReadsFor(r, u) # {} /\ ~Threw(r, u) /\ InsertsOk(r, u))
                              => \A key \in MatchKeys(r, u) : HasAlert(u, key)

\* C11 witness: a scheduled run that met no failure has answered; the three
\* matches of U1 (two of its ingredients match ECHA's first listing of Lead) and
\* the match of U2 all have their alert
C11_Witness ==
    \E r \in RunIds :
        /\ run[r].kind = "GET" /\ run[r].pc = "done" /\ run[r].status = 200
        /\ \A k \in Events(r) : run[r].log[k].answer = "ok"
        /\ Cardinality(MatchKeys(r, U1)) = 3 /\ Cardinality(MatchKeys(r, U2)) = 1
        /\ \A key \in MatchKeys(r, U1) : HasAlert(U1, key)
        /\ \A key \in MatchKeys(r, U2) : HasAlert(U2, key)
        /\ HasAlert(U1, <<<<"i","3">>, Lead, ECHA_SVHC>>)

\* C12: when the query for a tenant's existing alerts fails, the run inserts
\* nothing and notifies nothing for that tenant, and an on-demand run answers 500.
C12_ReadFailureStopsTenant ==
    \A r \in RunIds : \A k \in Reads(r) :
        run[r].log[k].answer # "ok" =>
            /\ (run[r].kind = "POST" /\ run[r].pc = "done") => run[r].status = 500
            /\ InsertsFor(r, run[r].log[k].user) = {}
            /\ \A m \in mail : ~(m.run = r /\ m.to = run[r].log[k].user)

\* the rows run r stored: one per row of an insert that answered ok
StoredCount(r) == Cardinality({t \in Tried(r) : run[r].log[t[1]].answer = "ok"})

\* C13: a Notifier failure is caught: what was in the table when the Notifier was
\* called is still there, the on-demand run answers 200 with the counts it had
\* before the call, and the scheduled run gives the other tenants their turn
\* and answers 200.
C13_NotifierFailureCaught ==
    \A m \in mail :
        m.answer = "throw" =>
            /\ m.stored \sqsubseteq regulatory_alerts
            /\ \A t \in Tried(m.run) :
                   run[m.run].log[t[1]].answer = "ok" => BagIn(TriedRow(m.run, t), regulatory_alerts)
            /\ run[m.run].kind = "POST" =>
                   /\ run[m.run].pc = "done" /\ run[m.run].status = 200
                   /\ run[m.run].alertsCreated = m.alertsCreated
                   /\ run[m.run].duplicatesSkipped = m.duplicatesSkipped
            /\ (run[m.run].kind = "GET" /\ run[m.run].pc = "done") =>
                   /\ run[m.run].status = 200
                   /\ \A B \in TenantsOf(m.run) :
                          (B # m.to /\ HasEmail(B)) => Processed(m.run, B)

\* C13 witness: the email of an on-demand run for U2 failed after its alert was
\* stored, and the email to U1 of a scheduled run failed before U2 had its turn;
\* both runs answered 200
C13_Witness ==
    \E m1, m2 \in mail :
        /\ m1.answer = "throw" /\ m2.answer = "throw"
        /\ run[m1.run].kind = "POST" /\ m1.to = U2
        /\ run[m1.run].status = 200 /\ run[m1.run].alertsCreated = 1
        /\ HasAlert(U2, <<<<"i","2">>, TitaniumDioxide, ANSM>>)
        /\ run[m2.run].kind = "GET" /\ m2.to = U1
        /\ run[m2.run].pc = "done" /\ run[m2.run].status = 200
        /\ ReadsFor(m2.run, U2) # {}
        /\ Cardinality(Persisted(m2.run, U1)) = 3

\* C14: the notification indicator says what was sent: emailSent is true exactly
\* when the on-demand run's Notifier call succeeded, and emailsSent is the number
\* of tenants whose Notifier call succeeded in the scheduled run.
C14_IndicatorReportsSent ==
    \A r \in RunIds :
        (run[r].pc = "done" /\ run[r].status = 200) =>
            /\ run[r].kind = "POST" =>
                   (run[r].emailSent <=> \E m \in mail : m.run = r /\ m.answer = "ok")
            /\ run[r].kind = "GET" =>
                   run[r].emailsSent = Cardinality({m \in mail : m.run = r /\ m.answer = "ok"})

\* the scheduled half of C14 alone
CronIndicatorReportsSent ==
    \A r \in RunIds :
        (run[r].kind = "GET" /\ run[r].pc = "done" /\ run[r].status = 200) =>
            run[r].emailsSent = Cardinality({m \in mail : m.run = r /\ m.answer = "ok"})

\* the keys an on-demand run accepted: its matches that its read did not know
PostAccepted(r) ==
    {key \in PostMatchKeys(r) : Key(key[1], key[2], key[3]) \notin run[r].log[1].keys}

NewAlertKeys(r) == {AlertKey(run[r].newAlerts[n]) : n \in 1..Len(run[r].newAlerts)}

\* C15: in an on-demand run a failed insert blocks no other: every accepted alert
\* is handed to the store, and each one stored is in the table, counted in
\* alertsCreated and part of the notification batch.
C15_FailedInsertBlocksNoOther ==
    \A r \in RunIds :
        (run[r].kind = "POST" /\ run[r].pc = "done" /\ run[r].status = 200) =>
            /\ {RowKey(TriedRow(r, t)) : t \in Tried(r)} = PostAccepted(r)
            /\ \A t \in Tried(r) :
                   run[r].log[t[1]].answer = "ok" => BagIn(TriedRow(r, t), regulatory_alerts)
            /\ run[r].alertsCreated = StoredCount(r)
            /\ Len(run[r].newAlerts) = StoredCount(r)
            /\ NewAlertKeys(r) = Persisted(r, run[r].user)
            /\ run[r].newAlerts # <<>> =>
                   \E m \in mail : m.run = r /\ m.to = run[r].user /\ m.alerts = run[r].newAlerts

\* C15 witness: U1's first insert failed, the two after it were stored, counted
\* and notified
C15_Witness ==
    \E r \in RunIds :
        /\ run[r].kind = "POST" /\ run[r].pc = "done" /\ run[r].status = 200 /\ run[r].user = U1
        /\ Len(run[r].log) = 4
        /\ run[r].log[2].answer = "error" /\ run[r].log[3].answer = "ok" /\ run[r].log[4].answer = "ok"
        /\ run[r].alertsCreated = 2
        /\ \E m \in mail : m.run = r /\ Len(m.alerts) = 2
        /\ ~HasAlert(U1, RowKey(run[r].log[2].rows[1]))

Tenants == {auth_users[k].id : k \in 1..Len(auth_users)}

FailedInsertFor(r, u) == \E k \in InsertsFor(r, u) : run[r].log[k].answer # "ok"

\* run r met no failure at all: store calls and Notifier calls all succeeded
CleanRun(r) ==
    /\ \A k \in Events(r) : run[r].log[k].answer = "ok"
    /\ \A m \in mail : m.run = r => m.answer = "ok"

\* the matches of tenant u in run r, by the matcher of the run's handler
MatchKeysOf(r, u) == IF run[r].kind = "POST" THEN PostMatchKeys(r) ELSE MatchKeys(r, u)

\* the rows of the table that carry this key for tenant u, copies counted
RowsWith(u, key) ==
    LET hits == {a \in BagToSet(regulatory_alerts) : a.user_id = u /\ RowKey(a) = key}
    IN  IF hits = {} THEN 0
        ELSE IF Cardinality(hits) > 1 THEN 2
        ELSE CopiesIn(CHOOSE a \in hits : TRUE, regulatory_alerts)

\* C16: after a run in which an insert for a tenant failed, a later run without
\* failure (on-demand or scheduled) stores for that tenant exactly the matches
\* the table lacked when it read it, and none the table had; afterwards every
\* match has one row.
C16_RetryAddsOnlyMissing ==
    \A r1, r2 \in RunIds : \A u \in Tenants :
        (/\ r1 \in run[r2].after /\ FailedInsertFor(r1, u)
         /\ run[r2].pc = "done" /\ run[r2].status = 200
         /\ CleanRun(r2) /\ ReadsFor(r2, u) # {})
            => LET k == CHOOSE x \in ReadsFor(r2, u) : TRUE
               IN  /\ Persisted(r2, u) = MatchKeysOf(r2, u) \ run[r2].log[k].stored
                   /\ \A key \in MatchKeysOf(r2, u) : RowsWith(u, key) = 1

\* C16 witness: an on-demand run for U1 stored two alerts and failed on the
\* EUR-Lex one; the scheduled run after it found the two and stored the third
C16_Witness ==
    \E r1, r2 \in RunIds :
        /\ r1 \in run[r2].after
        /\ run[r1].kind = "POST" /\ run[r1].user = U1 /\ run[r1].alertsCreated = 2
        /\ \E k \in InsertsFor(r1, U1) :
               /\ run[r1].log[k].answer = "error"
               /\ RowKey(run[r1].log[k].rows[1]) = <<<<"i","1">>, Lead, EUR_LEX>>
        /\ run[r2].kind = "GET" /\ run[r2].pc = "done" /\ CleanRun(r2)
        /\ \E k \in ReadsFor(r2, U1) : Cardinality(run[r2].log[k].stored) = 2
        /\ Persisted(r2, U1) = {<<<<"i","1">>, Lead, EUR_LEX>>}

\* C17: an insert rejected as a uniqueness violation does not end the run and is
\* not reported as its failure: the run answers 200, the rejected rows are not
\* counted in alertsCreated, the on-demand run still hands its other matches to
\* the store and the scheduled run still gives the other tenants their turn.
C17_UniqueViolationIgnored ==
    \A r \in RunIds : \A k \in Inserts(r) :
        run[r].log[k].answer = "unique" =>
            /\ run[r].alertsCreated = StoredCount(r)
            /\ run[r].pc = "done" =>
                   /\ run[r].status = 200
                   /\ run[r].kind = "POST" =>
                          {RowKey(TriedRow(r, t)) : t \in Tried(r)} = PostAccepted(r)
                   /\ run[r].kind = "GET" =>
                          \A B \in TenantsOf(r) :
                              (B # run[r].log[k].user /\ HasEmail(B)) => Processed(r, B)

\* C17 witness: the scheduled run's batch for U1 was rejected because an
\* on-demand run had stored one of its rows; it went on to store U2's alert,
\* answered 200 and counted that one alert only
C17_Witness ==
    \E r \in RunIds :
        /\ run[r].kind = "GET" /\ run[r].pc = "done" /\ run[r].status = 200
        /\ \E k \in InsertsFor(r, U1) :
               run[r].log[k].answer = "unique" /\ Len(run[r].log[k].rows) = 3
        /\ Persisted(r, U2) = {<<<<"i","2">>, TitaniumDioxide, ANSM>>}
        /\ run[r].alertsCreated = 1

\* the request of run r fails authentication: an on-demand request without a
\* user, a scheduled request whose header is not `Bearer <secret>`
FailsAuthentication(r) ==
    \/ run[r].kind = "POST" /\ run[r].user = NULL /\ run[r].pc # "idle"
    \/ run[r].kind = "GET" /\ run[r].auth # Bearer \o CRON_SECRET

\* run r touched nothing: no provider list, no ingredient, no store call, no email
NoSideEffect(r) ==
    /\ run[r].allEntries = <<>> /\ run[r].ingredients = <<>> /\ ~run[r].ingError
    /\ run[r].log = <<>>
    /\ run[r].alertsCreated = 0
    /\ \A m \in mail : m.run # r

\* C18: a request that fails authentication is answered 401 and does nothing
\* else: no provider is fetched, no ingredient or alert is read, no alert is
\* written, no notification is sent.
C18_UnauthenticatedDoesNothing ==
    \A r \in RunIds :
        FailsAuthentication(r) => (run[r].pc = "done" /\ run[r].status = 401 /\ NoSideEffect(r))

\* C18 witness: a scheduled request with a wrong token and an on-demand request
\* without a session, both answered 401, the table as it was and the mailbox still empty
C18_Witness ==
    \E r1, r2 \in RunIds :
        /\ run[r1].kind = "GET" /\ run[r1].auth = Bearer \o <<"g","u","e","s","s">>
        /\ run[r1].status = 401
        /\ run[r2].kind = "POST" /\ run[r2].user = NULL /\ run[r2].status = 401
        /\ regulatory_alerts = InitialAlerts /\ mail = {}

\* C19: an on-demand run whose ingredient query failed answers 500 having read
\* no existing alert, inserted nothing and notified nobody.
C19_IngredientErrorDoesNothing ==
    \A r \in RunIds :
        (run[r].kind = "POST" /\ run[r].ingError) =>
            /\ run[r].pc = "done" /\ run[r].status = 500
            /\ run[r].log = <<>> /\ run[r].alertsCreated = 0 /\ ~run[r].emailSent
            /\ \A m \in mail : m.run # r

\* C19 witness: U1's on-demand run failed on its ingredients and answered 500;
\* the rows in the table are another run's
C19_Witness ==
    \E r \in RunIds :
        /\ run[r].kind = "POST" /\ run[r].ingError /\ run[r].user = U1
        /\ run[r].status = 500 /\ run[r].log = <<>>
        /\ \E r2 \in RunIds : r2 # r /\ Cardinality(Persisted(r2, U1)) = 3

\* C20: a scheduled run that loaded the ingredients processes every tenant that
\* owns one before it answers: the tenant's existing alerts are read and, its
\* inserts not failing, each of its matches has an alert.
C20_EveryTenantProcessed ==
    \A r \in RunIds :
        (run[r].kind = "GET" /\ run[r].pc = "done" /\ run[r].status = 200 /\ run[r].ingredients # <<>>)
            => \A u \in TenantsOf(r) :
                   /\ ReadsFor(r, u) # {}
                   /\ (CleanRun(r) /\ InsertsOk(r, u)) => \A key \in MatchKeys(r, u) : HasAlert(u, key)

\* what the scheduled handler does give: the same, for the tenants that have an
\* email address
CronTenantsWithEmailProcessed ==
    \A r \in RunIds :
        (run[r].kind = "GET" /\ run[r].pc = "done" /\ run[r].status = 200 /\ run[r].ingredients # <<>>)
            => \A u \in TenantsOf(r) :
                   HasEmail(u) =>
                       /\ ReadsFor(r, u) # {}
                       /\ (CleanRun(r) /\ InsertsOk(r, u)) => \A key \in MatchKeys(r, u) : HasAlert(u, key)

\* a scheduled run without any failure has answered and U3, who has no email
\* address, was never read although its ingredient matches on two keys
CronSkippedTenant ==
    \E r \in RunIds :
        /\ run[r].kind = "GET" /\ run[r].pc = "done" /\ run[r].status = 200 /\ CleanRun(r)
        /\ ReadsFor(r, U3) = {} /\ Cardinality(MatchKeys(r, U3)) = 2
        /\ \A key \in MatchKeys(r, U3) : ~HasAlert(U3, key)

\* C24: a step of either handler only adds alert rows: every row of the table,
\* with all its fields (is_read included), is still there after the step, as
\* many times as before, and the ingredient table is left as it was.
C24_RunsOnlyInsert ==
    [][/\ regulatory_alerts \sqsubseteq regulatory_alerts'
       /\ monitored_ingredients' = monitored_ingredients]_vars

\* C24 witness: an on-demand run for U2 and a scheduled run have both answered;
\* U2's new alert is in the table next to the old one, which is still marked read
C24_Witness ==
    /\ \E r1, r2 \in RunIds :
           /\ run[r1].kind = "POST" /\ run[r1].user = U2 /\ run[r1].status = 200
           /\ run[r2].kind = "GET" /\ run[r2].pc = "done" /\ run[r2].status = 200
    /\ HasAlert(U2, <<<<"i","2">>, TitaniumDioxide, ANSM>>)
    /\ BagIn(OldAlert, regulatory_alerts) /\ OldAlert.is_read
    /\ BagCardinality(regulatory_alerts) = 5
    /\ monitored_ingredients = IngredientRows

\* the inserts of run r for tenant u met no error but uniqueness violations
OnlyUniqueViolations(r, u) ==
    \A k \in InsertsFor(r, u) : run[r].log[k].answer \in {"ok", "unique"}

\* C27: when an on-demand run of a tenant and a scheduled run that has the
\* tenant among its own have both answered, however they interleaved, and
\* neither met a write error other than a uniqueness violation for the tenant,
\* every match of the tenant has its alert in the table.
C27_RaceLosesNoAlert ==
    \A rp, rg \in RunIds :
        (/\ run[rp].kind = "POST" /\ run[rp].pc = "done" /\ run[rp].status = 200
         /\ run[rg].kind = "GET" /\ run[rg].pc = "done" /\ run[rg].status = 200
         /\ run[rp].user \in TenantsOf(rg)
         /\ OnlyUniqueViolations(rp, run[rp].user) /\ OnlyUniqueViolations(rg, run[rp].user))
            => /\ \A key \in PostMatchKeys(rp) : HasAlert(run[rp].user, key)
               /\ \A key \in MatchKeys(rg, run[rp].user) : HasAlert(run[rp].user, key)

\* C27 witness: both runs read U1's alerts before either wrote; the on-demand
\* run stored its first alert, the scheduled run's batch of three was rejected,
\* and the on-demand run stored the other two
C27_Witness ==
    \E rp, rg \in RunIds :
        /\ run[rp].kind = "POST" /\ run[rp].status = 200 /\ run[rp].user = U1
        /\ run[rg].kind = "GET" /\ run[rg].pc = "done"
        /\ run[rp].log[1].answer = "ok" /\ run[rp].log[1].stored = {}
        /\ \E k \in ReadsFor(rg, U1) : run[rg].log[k].answer = "ok" /\ run[rg].log[k].stored = {}
        /\ \E k \in InsertsFor(rg, U1) : run[rg].log[k].answer = "unique"
        /\ Persisted(rg, U1) = {}
        /\ Cardinality(Persisted(rp, U1)) = 3
        /\ \A key \in MatchKeys(rg, U1) : HasAlert(U1, key)

\* C28: at the end of an on-demand run every match it counted in
\* duplicatesSkipped has an alert under its key in the table, also when an
\* earlier insert of the run failed.
C28_SkippedHasAlert ==
    \A r \in RunIds :
        (run[r].kind = "POST" /\ run[r].pc = "done" /\ run[r].status = 200) =>
            /\ run[r].duplicatesSkipped > 0 => run[r].skipped # {}
            /\ \A key \in run[r].skipped : HasAlert(run[r].user, key)

\* the same, for the runs none of whose inserts failed
SkippedHasAlertWithoutFailure ==
    \A r \in RunIds :
        (run[r].kind = "POST" /\ run[r].pc = "done" /\ run[r].status = 200 /\ NoWriteFailure(r)) =>
            \A key \in run[r].skipped : HasAlert(run[r].user, key)

\* the matcher of the handler run r executes
MatchKindOf(r, ingredient, entry) ==
    IF run[r].kind = "POST" THEN MatchKind(ingredient, entry) ELSE cronMatchKind(ingredient, entry)

\* the rows of the ingredient table that run r loaded and that tenant u owns
LoadedFor(r, u) ==
    {run[r].ingredients[k] : k \in {n \in 1..Len(run[r].ingredients) :
                                        run[r].ingredients[n].user_id = u}}

\* a dedup key string that begins with this ingredient's id
KeyOfIngredient(key, ingredient) ==
    /\ Len(key) >= Len(ingredient.id) + 2
    /\ SubSeq(key, 1, Len(ingredient.id) + 2) = ingredient.id \o <<":", ":">>

\* C29: every row a run hands to the store is owned by the tenant being
\* processed, names an ingredient of that tenant that the run loaded, and carries
\* the name and source of an entry the matcher matched with that ingredient; and
\* the key set a run works with for a tenant holds keys of that tenant's
\* ingredients only, read from that tenant's rows only.
C29_AlertsAndKeysAreTenantScoped ==
    \A r \in RunIds :
        /\ \A t \in Tried(r) :
               LET row == TriedRow(r, t)
                   u == run[r].log[t[1]].user
               IN  /\ row.user_id = u
                   /\ \E ingredient \in LoadedFor(r, u) :
                          /\ ingredient.id = row.ingredient_id
                          /\ \E k \in 1..Len(monitored_ingredients) :
                                 monitored_ingredients[k] = ingredient
                          /\ \E j \in 1..Len(run[r].allEntries) :
                                 /\ run[r].allEntries[j].name = row.substance_name
                                 /\ run[r].allEntries[j].source = row.source
                                 /\ MatchKindOf(r, ingredient, run[r].allEntries[j]) # "NoMatch"
        /\ \A k \in Reads(r) : \A key \in run[r].log[k].keys :
               \E triple \in run[r].log[k].stored :
                   key = triple[1] \o <<":", ":">> \o triple[2] \o <<":", ":">> \o triple[3]
        /\ run[r].user # NULL =>
               \A key \in run[r].existingKeys :
                   \E ingredient \in LoadedFor(r, run[r].user) : KeyOfIngredient(key, ingredient)

\* C29 witness: a scheduled run has stored U1's three rows and now holds U2's
\* batch; its key set has U2's two keys and none of U1's
C29_Witness ==
    \E r \in RunIds :
        /\ run[r].kind = "GET" /\ run[r].pc = "insert" /\ run[r].user = U2
        /\ Cardinality(Persisted(r, U1)) = 3
        /\ Cardinality(run[r].existingKeys) = 2
        /\ Len(run[r].rowsToInsert) = 1 /\ run[r].rowsToInsert[1].user_id = U2
        /\ run[r].rowsToInsert[1].ingredient_id = <<"i","2">>

----------------------------------------------------------------------------
(* The shared secret of the scheduled endpoint (under UnsetSecretSpec and Spec) *)

\* a scheduled request that got past the authorization check
GetStarted(r) == run[r].kind = "GET" /\ run[r].status # 401

\* C30: a scheduled run starts only when a secret is configured and the
\* Authorization header is 'Bearer ' followed by it; with CRON_SECRET unset every
\* request is answered 401 and no run starts.
C30_StartsOnlyWithConfiguredSecret ==
    \A r \in RunIds :
        GetStarted(r) => /\ env.CRON_SECRET # NULL
                         /\ run[r].auth = Bearer \o env.CRON_SECRET

\* what does hold with CRON_SECRET unset: only the header 'Bearer undefined' starts a run
UnsetSecretStartsOnUndefined ==
    \A r \in RunIds :
        (GetStarted(r) /\ env.CRON_SECRET = NULL) =>
            run[r].auth = Bearer \o <<"u","n","d","e","f","i","n","e","d">>

\* with CRON_SECRET unset, a scheduled run has stored alerts and sent mail
UnsetSecretRunActed ==
    \E r \in RunIds :
        /\ env.CRON_SECRET = NULL /\ GetStarted(r) /\ run[r].pc = "done"
        /\ \E u \in Tenants : Persisted(r, u) # {}
        /\ \E m \in mail : m.run = r

----------------------------------------------------------------------------
(* The substring example (under DehpSpec) *)

\* t occurs in s, position by position
OccursIn(t, s) ==
    \E a \in 0..(Len(s) - Len(t)) : \A k \in 1..Len(t) : s[a + k] = t[k]

\* the claim's pair: no CAS number on the ingredient, a name of 4 characters or
\* more once lower-cased and trimmed, found inside the entry's lower-cased name
SubstringPair(ingredient, entry) ==
    /\ ingredient.cas_number = NULL
    /\ Len(trim(toLowerCase(ingredient.ingredient_name))) >= 4
    /\ OccursIn(trim(toLowerCase(ingredient.ingredient_name)), toLowerCase(entry.name))

\* the rows run r stored under this key for tenant u
StoredBy(r, u, key) ==
    {t \in Tried(r) : /\ run[r].log[t[1]].user = u /\ run[r].log[t[1]].answer = "ok"
                      /\ RowKey(TriedRow(r, t)) = key}

\* C25: an ingredient without CAS number whose name (lower-cased, trimmed, 4
\* characters or more) occurs inside an entry's lower-cased name is a NameMatch;
\* a run that meets no failure and found no alert under the pair's key stores
\* exactly one alert for it, named after the entry and carrying the entry's source.
C25_SubstringMatchCreatesOneAlert ==
    \A r \in RunIds : \A k \in Reads(r) :
        (run[r].pc = "done" /\ run[r].status = 200 /\ CleanRun(r)) =>
            \A i \in 1..Len(run[r].ingredients) : \A j \in 1..Len(run[r].allEntries) :
                LET ingredient == run[r].ingredients[i]
                    entry == run[r].allEntries[j]
                    u == run[r].log[k].user
                    key == <<ingredient.id, entry.name, entry.source>>
                IN  (ingredient.user_id = u /\ SubstringPair(ingredient, entry)) =>
                        /\ MatchKind(ingredient, entry) = "NameMatch"
                        /\ cronMatchKind(ingredient, entry) = "NameMatch"
                        /\ key \notin run[r].log[k].stored =>
                               /\ Cardinality(StoredBy(r, u, key)) = 1
                               /\ RowsWith(u, key) = 1
                               /\ \E a \in BagToSet(regulatory_alerts) :
                                      /\ a.user_id = u /\ a.ingredient_id = ingredient.id
                                      /\ a.substance_name = entry.name /\ a.source = entry.source

\* C25 witness: the on-demand run of the tenant that monitors 'DEHP' stored one
\* alert, named 'Bis(2-ethylhexyl) phthalate (DEHP)', source ECHA_SVHC
C25_Witness ==
    \E r \in RunIds :
        /\ run[r].kind = "POST" /\ run[r].pc = "done" /\ run[r].status = 200 /\ CleanRun(r)
        /\ run[r].ingredients = DehpRows
        /\ run[r].log[1].stored = {}
        /\ SubstringPair(DehpRows[1], run[r].allEntries[3])
        /\ run[r].alertsCreated = 1
        /\ regulatory_alerts = InitialAlerts (+) SetToBag({
               [user_id |-> U1, ingredient_id |-> <<"i","5">>, substance_name |-> BisDEHP,
                cas_number |-> Cas_117_81_7, source |-> ECHA_SVHC]})

----------------------------------------------------------------------------
(* Properties of one run on its own (under SoloSpec) *)

SoloDone == probe.phase = "solo done"

\* what an outcome persisted and what it notified, order forgotten
KeysIn(store) == {<<a.user_id, RowKey(a)>> : a \in BagToSet(store)}
NotifiedIn(sent) == {<<m.to, {m.alerts[n] : n \in 1..Len(m.alerts)}>> : m \in sent}

\* C21: with the ingredients, the provider lists and the starting table fixed
\* and no failure, the keys a scheduled run persists and the set of alerts in
\* each tenant's notification do not depend on the order in which the provider
\* lists are concatenated nor on the order in which the tenants (the rows of
\* the ingredient table) come.
C21_OrderInvariant ==
    SoloDone =>
        /\ KeysIn(probe.cron.store) = KeysIn(probe.reference.store)
        /\ NotifiedIn(probe.cron.mail) = NotifiedIn(probe.reference.mail)
        /\ KeysIn(probe.reordered.store) = KeysIn(probe.reference.store)
        /\ NotifiedIn(probe.reordered.mail) = NotifiedIn(probe.reference.mail)

\* C21 witness: U2's rows come first and ANSM's list is concatenated first; the
\* batches are built in another order than the handler's and hold the same alerts
C21_Witness ==
    /\ SoloDone
    /\ monitored_ingredients[1].user_id = U2
    /\ probe.order = <<3, 2, 1>>
    /\ regulatory_alerts = InitialAlerts
    /\ probe.reordered.mail # probe.reference.mail
    /\ NotifiedIn(probe.reordered.mail) = NotifiedIn(probe.reference.mail)
    /\ Cardinality(KeysIn(probe.reordered.store)) = 5

----------------------------------------------------------------------------
(* Properties of the normalizer (under NormSpec) *)

Normalized == probe.phase = "normalized"

\* the entry at position k of allEntries is the entry at position n of this
\* provider's list, tagged with the provider's source id
CameFrom(k, list, n, source) ==
    /\ n \in 1..Len(list)
    /\ probe.allEntries[k].name = list[n].name
    /\ probe.allEntries[k].casNumber = list[n].casNumber
    /\ probe.allEntries[k].source = source

\* C23: allEntries is the ECHA list, then the EUR-Lex list, then the ANSM list:
\* as long as the three together, each list in its own order, nothing dropped,
\* each entry tagged with its provider's source id, name and CAS number unchanged.
C23_NormalizeIsConcatenation ==
    Normalized =>
        /\ Len(probe.allEntries) = Len(probe.echa) + Len(probe.eurlex) + Len(probe.ansm)
        /\ \A k \in 1..Len(probe.allEntries) :
               IF k <= Len(probe.echa)
               THEN CameFrom(k, probe.echa, k, ECHA_SVHC)
               ELSE IF k <= Len(probe.echa) + Len(probe.eurlex)
               THEN CameFrom(k, probe.eurlex, k - Len(probe.echa), EUR_LEX)
               ELSE CameFrom(k, probe.ansm, k - Len(probe.echa) - Len(probe.eurlex), ANSM)

\* C23 witness: three full lists, the same entry first on ECHA's and on ANSM's
\* list, six entries out, the first and the fifth differing in the source only
C23_Witness ==
    /\ Normalized
    /\ Len(probe.echa) = 2 /\ Len(probe.eurlex) = 2 /\ Len(probe.ansm) = 2
    /\ probe.echa[1] = probe.ansm[1] /\ probe.echa[1] # probe.echa[2]
    /\ Len(probe.allEntries) = 6
    /\ probe.allEntries[1].source = ECHA_SVHC /\ probe.allEntries[5].source = ANSM
    /\ probe.allEntries[1].name = probe.allEntries[5].name

\* C26: for one tenant with an email address, the same ingredients, the same
\* provider lists and the same table, and no failure, the on-demand and the
\* scheduled handler leave the same table and hand the Notifier the same batch.
C26_VariantsAgree ==
    SoloDone =>
        /\ probe.post.store = probe.single.store
        /\ probe.post.mail = probe.single.mail

\* C26 witness: U1, whose EUR-Lex alert is already in the table: both handlers
\* store the two ECHA alerts and notify them in one batch
C26_Witness ==
    /\ SoloDone /\ probe.user = U1
    /\ HasAlert(U1, <<<<"i","1">>, Lead, EUR_LEX>>)
    /\ BagCardinality(probe.post.store) = BagCardinality(regulatory_alerts) + 2
    /\ probe.post.store = probe.single.store
    /\ \E m \in probe.post.mail : m.to = U1 /\ Len(m.alerts) = 2 /\ m \in probe.single.mail

====
